---- MODULE Spec2Model ----
(***************************************************************************)
(* QQBot structured payload codec (extensions/qqbot/src/utils/payload.ts). *)
(*                                                                         *)
(* A JavaScript string is modelled as a sequence of UTF-16 code units.  A  *)
(* code unit is denoted by a TLA+ string: a printable ASCII character, the *)
(* newline and the tab denote themselves ("a", "{", "\n"), and every other *)
(* code unit is denoted by "U+" followed by its four hexadecimal digits    *)
(* ("U+FFFD", "U+000D").  Only code units of the Basic Multilingual Plane  *)
(* occur.  A byte is a number in 0..255.                                   *)
(***************************************************************************)
EXTENDS Integers, Sequences, FiniteSets, TLC

\* The code units of a literal.
Chars(s) == [i \in 1..Len(s) |-> SubSeq(s, i, i)]

\* The printable ASCII characters of codes 32 to 95 and of codes 97 to 126, in
\* order (code 96, the grave accent, is written "U+0060").
PrintableLow ==
    Chars(" !\"#$%&'()*+,-./0123456789:;<=>?@ABCDEFGHIJKLMNOPQRSTUVWXYZ[\\]^_")

PrintableHigh == Chars("abcdefghijklmnopqrstuvwxyz{|}~")

OrdTable ==
    [c \in {PrintableLow[i] : i \in 1..64} \cup {PrintableHigh[i] : i \in 1..30} |->
        IF c \in {PrintableLow[i] : i \in 1..64}
        THEN 31 + (CHOOSE i \in 1..64 : PrintableLow[i] = c)
        ELSE 96 + (CHOOSE i \in 1..30 : PrintableHigh[i] = c)]

HexDigits == Chars("0123456789ABCDEF")

HexTable ==
    [c \in {HexDigits[i] : i \in 1..16} \cup {"a", "b", "c", "d", "e", "f"} |->
        IF c \in {HexDigits[i] : i \in 1..16}
        THEN (CHOOSE i \in 1..16 : HexDigits[i] = c) - 1
        ELSE CASE c = "a" -> 10 [] c = "b" -> 11 [] c = "c" -> 12
               [] c = "d" -> 13 [] c = "e" -> 14 [] c = "f" -> 15]

IsHexDigit(c) == c \in DOMAIN HexTable

\* The number of a code unit.
Ord(c) ==
    IF c \in DOMAIN OrdTable THEN OrdTable[c]
    ELSE IF c = "\n" THEN 10
    ELSE IF c = "\t" THEN 9
    ELSE 4096 * HexTable[SubSeq(c, 3, 3)] + 256 * HexTable[SubSeq(c, 4, 4)]
         + 16 * HexTable[SubSeq(c, 5, 5)] + HexTable[SubSeq(c, 6, 6)]

\* The code unit of a number in 0..65535.
Chr(n) ==
    IF n >= 32 /\ n <= 95 THEN PrintableLow[n - 31]
    ELSE IF n >= 97 /\ n <= 126 THEN PrintableHigh[n - 96]
    ELSE IF n = 10 THEN "\n"
    ELSE IF n = 9 THEN "\t"
    ELSE "U+" \o HexDigits[(n \div 4096) + 1] \o HexDigits[((n \div 256) % 16) + 1]
              \o HexDigits[((n \div 16) % 16) + 1] \o HexDigits[(n % 16) + 1]

(***************************************************************************)
(* String.prototype methods used by the codec.                             *)
(***************************************************************************)

\* WhiteSpace and LineTerminator code units, as String.prototype.trim strips them.
IsWhiteSpaceCode(n) ==
    \/ n \in {9, 10, 11, 12, 13, 32, 160, 5760, 8232, 8233, 8239, 8287, 12288, 65279}
    \/ (n >= 8192 /\ n <= 8202)

IsWhiteSpace(c) == IsWhiteSpaceCode(Ord(c))

RECURSIVE trimStart(_)
trimStart(s) ==
    IF s # <<>> /\ IsWhiteSpace(Head(s)) THEN trimStart(Tail(s)) ELSE s

RECURSIVE trimEnd(_)
trimEnd(s) ==
    IF s # <<>> /\ IsWhiteSpace(s[Len(s)]) THEN trimEnd(SubSeq(s, 1, Len(s) - 1)) ELSE s

\* text.trim()
trim(s) == trimEnd(trimStart(s))

\* s.startsWith(prefix)
startsWith(s, prefix) ==
    /\ Len(s) >= Len(prefix)
    /\ SubSeq(s, 1, Len(prefix)) = prefix

\* s.slice(n), 0 <= n
slice(s, n) == SubSeq(s, n + 1, Len(s))

PAYLOAD_PREFIX == Chars("QQBOT_PAYLOAD:")

CRON_PREFIX == Chars("QQBOT_CRON:")

(***************************************************************************)
(* Buffer: UTF-8 and base64, as Buffer.from(s, enc) and buf.toString(enc)  *)
(* compute them.  None of the four conversions throws.                     *)
(***************************************************************************)

IsHighSurrogate(n) == n >= 55296 /\ n <= 56319

IsLowSurrogate(n) == n >= 56320 /\ n <= 57343

\* UTF8Bytes with the middle byte of a three-byte sequence left out.
UTF8BytesShort(cp) ==
    IF cp < 128 THEN <<cp>>
    ELSE IF cp < 2048 THEN <<192 + (cp \div 64), 128 + (cp % 64)>>
    ELSE IF cp < 65536
    THEN <<224 + (cp \div 4096), 128 + (cp % 64)>>
    ELSE <<240 + (cp \div 262144), 128 + ((cp \div 4096) % 64),
           128 + ((cp \div 64) % 64), 128 + (cp % 64)>>

\* The UTF-8 bytes of the code point cp.
UTF8Bytes(cp) ==
    IF cp < 128 THEN <<cp>>
    ELSE IF cp < 2048 THEN <<192 + (cp \div 64), 128 + (cp % 64)>>
    ELSE IF cp < 65536
    THEN <<224 + (cp \div 4096), 128 + ((cp \div 64) % 64), 128 + (cp % 64)>>
    ELSE <<240 + (cp \div 262144), 128 + ((cp \div 4096) % 64),
           128 + ((cp \div 64) % 64), 128 + (cp % 64)>>

\* The concatenation of a sequence of sequences.
RECURSIVE Flatten(_)
Flatten(ss) ==
    IF Len(ss) = 0 THEN <<>>
    ELSE IF Len(ss) = 1 THEN ss[1]
    ELSE LET h == Len(ss) \div 2
         IN Flatten(SubSeq(ss, 1, h)) \o Flatten(SubSeq(ss, h + 1, Len(ss)))

\* Code unit i of s is the first of a surrogate pair.
PairAt(s, i) ==
    i >= 1 /\ i < Len(s) /\ IsHighSurrogate(Ord(s[i])) /\ IsLowSurrogate(Ord(s[i + 1]))

\* The UTF-8 bytes written for code unit i of s, of number n: a surrogate
\* pair is one code point, written at its first unit, and a lone surrogate is
\* written as U+FFFD.
UTF8Unit(s, i, n) ==
    IF ~(IsHighSurrogate(n) \/ IsLowSurrogate(n)) THEN UTF8Bytes(n)
    ELSE IF PairAt(s, i)
    THEN UTF8Bytes(65536 + (n - 55296) * 1024 + (Ord(s[i + 1]) - 56320))
    ELSE IF PairAt(s, i - 1) THEN <<>>
    ELSE UTF8Bytes(65533)

\* Buffer.from(s, 'utf-8')
UTF8Encode(s) == Flatten([i \in 1..Len(s) |-> UTF8Unit(s, i, Ord(s[i]))])

\* The code units of the code point cp.
CodeUnits(cp) ==
    IF cp < 65536 THEN <<Chr(cp)>>
    ELSE <<Chr(55296 + ((cp - 65536) \div 1024)), Chr(56320 + ((cp - 65536) % 1024))>>

IsContinuation(x) == x >= 128 /\ x <= 191

\* The continuation bytes a lead byte asks for: none for any other byte.
Needed(x) ==
    IF x >= 194 /\ x <= 223 THEN 1
    ELSE IF x >= 224 /\ x <= 239 THEN 2
    ELSE IF x >= 240 /\ x <= 244 THEN 3
    ELSE 0

\* Byte x may stand k-th after the lead byte lead.
ContinuationOk(lead, k, x) ==
    IF k = 1
    THEN /\ x >= (IF lead = 224 THEN 160 ELSE IF lead = 240 THEN 144 ELSE 128)
         /\ x <= (IF lead = 237 THEN 159 ELSE IF lead = 244 THEN 143 ELSE 191)
    ELSE IsContinuation(x)

\* The number of bytes after lead byte j that continue its sequence.
Continued(b, j) ==
    LET ok == {m \in 0..Needed(b[j]) :
                  \A k \in 1..m : j + k <= Len(b) /\ ContinuationOk(b[j], k, b[j + k])}
    IN CHOOSE m \in ok : \A o \in ok : o <= m

\* The bits a sequence of n + 1 bytes takes from its lead byte.
LeadBits(x) == IF Needed(x) = 1 THEN x - 192 ELSE IF Needed(x) = 2 THEN x - 224 ELSE x - 240

\* The code point of the complete sequence that starts at lead byte j.
RECURSIVE CodePoint(_, _, _)
CodePoint(b, j, k) ==
    IF k = 0 THEN LeadBits(b[j]) ELSE CodePoint(b, j, k - 1) * 64 + (b[j + k] - 128)

\* Byte i is a continuation byte taken by the sequence of an earlier lead byte.
Taken(b, i) ==
    \E j \in {i - 3, i - 2, i - 1} :
        j >= 1 /\ Needed(b[j]) > 0 /\ Continued(b, j) >= i - j

\* buf.toString('utf-8'): each byte below 128 is its character, each
\* complete sequence its code point, and each ill-formed sequence (a lead
\* byte with the continuation bytes it got, or any byte that starts nothing)
\* is U+FFFD; decoding goes on after it.
UTF8Decode(b) ==
    Flatten([i \in 1..Len(b) |->
        LET x == b[i] IN
        IF x < 128 THEN <<Chr(x)>>
        ELSE IF Needed(x) > 0
        THEN IF Continued(b, i) = Needed(x)
             THEN CodeUnits(CodePoint(b, i, Needed(x)))
             ELSE <<Chr(65533)>>
        ELSE IF IsContinuation(x) /\ Taken(b, i) THEN <<>>
        ELSE <<Chr(65533)>>])

\* The standard base64 alphabet.
Base64Alphabet == Chars("ABCDEFGHIJKLMNOPQRSTUVWXYZabcdefghijklmnopqrstuvwxyz0123456789+/")

Base64Table ==
    [c \in {Base64Alphabet[i] : i \in 1..64} \cup {"-", "_"} |->
        IF c = "-" THEN 62
        ELSE IF c = "_" THEN 63
        ELSE (CHOOSE i \in 1..64 : Base64Alphabet[i] = c) - 1]

\* The base64 characters of a group of one, two or three bytes, padded by "=".
Base64Group(g) ==
    IF Len(g) = 1
    THEN <<Base64Alphabet[(g[1] \div 4) + 1], Base64Alphabet[((g[1] % 4) * 16) + 1], "=", "=">>
    ELSE IF Len(g) = 2
    THEN <<Base64Alphabet[(g[1] \div 4) + 1],
           Base64Alphabet[((g[1] % 4) * 16 + (g[2] \div 16)) + 1],
           Base64Alphabet[((g[2] % 16) * 4) + 1], "=">>
    ELSE <<Base64Alphabet[(g[1] \div 4) + 1],
           Base64Alphabet[((g[1] % 4) * 16 + (g[2] \div 16)) + 1],
           Base64Alphabet[((g[2] % 16) * 4 + (g[3] \div 64)) + 1],
           Base64Alphabet[(g[3] % 64) + 1]>>

\* The groups of at most n elements a sequence falls into, in order.
Groups(v, n) ==
    [g \in 1..((Len(v) + n - 1) \div n) |->
        SubSeq(v, n * (g - 1) + 1, IF n * g < Len(v) THEN n * g ELSE Len(v))]

\* buf.toString('base64'): standard alphabet, padded with "=".
Base64Encode(b) ==
    LET groups == Groups(b, 3) IN Flatten([g \in 1..Len(groups) |-> Base64Group(groups[g])])

\* The part of s before its first "=".
BeforePadding(s) ==
    LET at == {i \in 1..Len(s) : s[i] = "="}
    IN IF at = {} THEN s
       ELSE SubSeq(s, 1, (CHOOSE i \in at : \A j \in at : i <= j) - 1)

IsBase64Char(c) == c \in DOMAIN Base64Table

\* The 6-bit values Buffer.from(s, 'base64') reads from s: it accepts the
\* standard and the URL-safe alphabet, skips every other character and stops
\* at the first "=".
Base64Sextets(s) ==
    LET kept == SelectSeq(BeforePadding(s), IsBase64Char)
    IN [i \in 1..Len(kept) |-> Base64Table[kept[i]]]

\* The bytes of a group of 6-bit values: three of a full group of four, one
\* of a last group of two, two of a last group of three.
SextetGroup(v) ==
    IF Len(v) < 2 THEN <<>>
    ELSE IF Len(v) = 2 THEN <<v[1] * 4 + (v[2] \div 16)>>
    ELSE IF Len(v) = 3 THEN <<v[1] * 4 + (v[2] \div 16), (v[2] % 16) * 16 + (v[3] \div 4)>>
    ELSE <<v[1] * 4 + (v[2] \div 16), (v[2] % 16) * 16 + (v[3] \div 4), (v[3] % 4) * 64 + v[4]>>

\* Buffer.from(s, 'base64')
Base64Decode(s) ==
    LET groups == Groups(Base64Sextets(s), 4)
    IN Flatten([g \in 1..Len(groups) |-> SextetGroup(groups[g])])

(***************************************************************************)
(* JavaScript values, as JSON.parse builds them.  An object keeps its      *)
(* properties in insertion order.  Numbers are the integers: no input of   *)
(* the model holds a fraction or an exponent.                              *)
(***************************************************************************)

JUndefined == [t |-> "undefined"]

JNull == [t |-> "null"]

JBool(b) == [t |-> "boolean", b |-> b]

JNum(n) == [t |-> "number", n |-> n]

JStr(s) == [t |-> "string", s |-> s]

JArr(items) == [t |-> "array", items |-> items]

JObj(props) == [t |-> "object", props |-> props]

\* A completion: a call returns a value or throws an error.
Return(v) == [kind |-> "return", value |-> v]

Throw(name, message) == [kind |-> "throw", error |-> [name |-> name, message |-> message]]

\* !v is false
Truthy(v) ==
    CASE v.t = "undefined" -> FALSE
      [] v.t = "null" -> FALSE
      [] v.t = "boolean" -> v.b
      [] v.t = "number" -> v.n # 0
      [] v.t = "string" -> v.s # <<>>
      [] OTHER -> TRUE

HasProp(props, k) == \E i \in 1..Len(props) : props[i].k = k

\* obj[k] = v on an object under construction.
SetProp(props, k, v) ==
    IF HasProp(props, k)
    THEN [i \in 1..Len(props) |-> IF props[i].k = k THEN [k |-> k, v |-> v] ELSE props[i]]
    ELSE Append(props, [k |-> k, v |-> v])

\* v.k evaluated: a TypeError on null and undefined, undefined where the
\* value has no such property (no primitive wrapper or array has one of the
\* names the codec reads).
GetProp(v, k) ==
    IF v.t \in {"null", "undefined"}
    THEN Throw("TypeError", Chars("Cannot read properties of ") \o Chars(v.t))
    ELSE IF v.t = "object" /\ HasProp(v.props, k)
    THEN Return(v.props[CHOOSE i \in 1..Len(v.props) : v.props[i].k = k].v)
    ELSE Return(JUndefined)

Digits == Chars("0123456789")

IsDigit(c) == c \in {Digits[i] : i \in 1..10}

DigitValue(c) == (CHOOSE i \in 1..10 : Digits[i] = c) - 1

RECURSIVE NatToChars(_)
NatToChars(n) ==
    IF n < 10 THEN <<Digits[n + 1]>> ELSE Append(NatToChars(n \div 10), Digits[(n % 10) + 1])

IntToChars(n) == IF n < 0 THEN <<"-">> \o NatToChars(-n) ELSE NatToChars(n)

(***************************************************************************)
(* JSON.parse                                                              *)
(***************************************************************************)

Fail == [ok |-> FALSE]

IsJsonWs(c) == c \in {" ", "\t", "\n", "U+000D"}

\* The first index from i on that holds no JSON white space.
RECURSIVE SkipWs(_, _)
SkipWs(t, i) == IF i <= Len(t) /\ IsJsonWs(t[i]) THEN SkipWs(t, i + 1) ELSE i

HasAt(t, i, lit) == i + Len(lit) - 1 <= Len(t) /\ SubSeq(t, i, i + Len(lit) - 1) = lit

\* The character an escape letter stands for.
EscapeChar(e) ==
    CASE e = "\"" -> "\""
      [] e = "\\" -> "\\"
      [] e = "/" -> "/"
      [] e = "b" -> Chr(8)
      [] e = "f" -> Chr(12)
      [] e = "n" -> "\n"
      [] e = "r" -> Chr(13)
      [] e = "t" -> "\t"

\* A string's characters from i on, after its opening quote: acc holds those read.
RECURSIVE ScanString(_, _, _)
ScanString(t, i, acc) ==
    IF i > Len(t) THEN Fail
    ELSE IF t[i] = "\"" THEN [ok |-> TRUE, v |-> acc, next |-> i + 1]
    ELSE IF t[i] = "\\"
    THEN IF i + 1 > Len(t) THEN Fail
         ELSE IF t[i + 1] \in {"\"", "\\", "/", "b", "f", "n", "r", "t"}
         THEN ScanString(t, i + 2, Append(acc, EscapeChar(t[i + 1])))
         ELSE IF t[i + 1] = "u" /\ i + 5 <= Len(t)
                 /\ \A j \in (i + 2)..(i + 5) : IsHexDigit(t[j])
         THEN ScanString(t, i + 6,
                         Append(acc, Chr(4096 * HexTable[t[i + 2]] + 256 * HexTable[t[i + 3]]
                                         + 16 * HexTable[t[i + 4]] + HexTable[t[i + 5]])))
         ELSE Fail
    ELSE IF Ord(t[i]) < 32 THEN Fail
    ELSE ScanString(t, i + 1, Append(acc, t[i]))

\* The digits from i on: acc is the number read so far.
RECURSIVE ScanDigits(_, _, _)
ScanDigits(t, i, acc) ==
    IF i <= Len(t) /\ IsDigit(t[i])
    THEN ScanDigits(t, i + 1, 10 * acc + DigitValue(t[i]))
    ELSE [ok |-> TRUE, v |-> acc, next |-> i]

\* The number whose digits start at j; neg tells of a minus before them.
ScanUnsigned(t, j, neg) ==
    IF j > Len(t) \/ ~IsDigit(t[j]) THEN Fail
    ELSE IF t[j] = "0" THEN [ok |-> TRUE, v |-> JNum(0), next |-> j + 1]
    ELSE [ok |-> TRUE,
          v |-> JNum(IF neg THEN -ScanDigits(t, j, 0).v ELSE ScanDigits(t, j, 0).v),
          next |-> ScanDigits(t, j, 0).next]

\* An integer from i on: an optional minus, then 0 or a digit string without
\* a leading zero.
ScanNumber(t, i) ==
    IF i <= Len(t) /\ t[i] = "-" THEN ScanUnsigned(t, i + 1, TRUE) ELSE ScanUnsigned(t, i, FALSE)

\* A scanned string as a value.
StringValue(r) == IF r.ok THEN [ok |-> TRUE, v |-> JStr(r.v), next |-> r.next] ELSE Fail

RECURSIVE ParseValue(_, _)
RECURSIVE ParseElements(_, _, _)
RECURSIVE ParseMembers(_, _, _)

\* After the elements acc of an array, at j: a comma and more, or the end.
ElementsEnd(t, j, acc) ==
    IF j > Len(t) THEN Fail
    ELSE IF t[j] = "," THEN ParseElements(t, j + 1, acc)
    ELSE IF t[j] = "]" THEN [ok |-> TRUE, v |-> JArr(acc), next |-> j + 1]
    ELSE Fail

\* The element e read after the elements acc.
ElementRead(t, e, acc) ==
    IF ~e.ok THEN Fail ELSE ElementsEnd(t, SkipWs(t, e.next), Append(acc, e.v))

\* The elements of an array from i on, the first or the one after a comma.
ParseElements(t, i, acc) == ElementRead(t, ParseValue(t, i), acc)

\* After the members acc of an object, at d: a comma and more, or the end.
MembersEnd(t, d, acc) ==
    IF d > Len(t) THEN Fail
    ELSE IF t[d] = "," THEN ParseMembers(t, d + 1, acc)
    ELSE IF t[d] = "}" THEN [ok |-> TRUE, v |-> JObj(acc), next |-> d + 1]
    ELSE Fail

\* The value m read for the member named key: a later member of the same
\* name replaces the value of the earlier one.
MemberRead(t, key, m, acc) ==
    IF ~m.ok THEN Fail ELSE MembersEnd(t, SkipWs(t, m.next), SetProp(acc, key, m.v))

\* The colon at c after a member's name, and its value.
MemberColon(t, key, c, acc) ==
    IF c > Len(t) \/ t[c] # ":" THEN Fail ELSE MemberRead(t, key, ParseValue(t, c + 1), acc)

\* The name k scanned for a member.
MemberName(t, k, acc) ==
    IF ~k.ok THEN Fail ELSE MemberColon(t, k.v, SkipWs(t, k.next), acc)

\* A member starts at j with the quote of its name.
MemberAt(t, j, acc) ==
    IF j > Len(t) \/ t[j] # "\"" THEN Fail ELSE MemberName(t, ScanString(t, j + 1, <<>>), acc)

\* The members of an object from i on, the first or the one after a comma.
ParseMembers(t, i, acc) == MemberAt(t, SkipWs(t, i), acc)

\* The array whose bracket stands before k, k holding no white space.
ArrayAt(t, k) ==
    IF k <= Len(t) /\ t[k] = "]"
    THEN [ok |-> TRUE, v |-> JArr(<<>>), next |-> k + 1]
    ELSE ParseElements(t, k, <<>>)

\* The object whose brace stands before k, k holding no white space.
ObjectAt(t, k) ==
    IF k <= Len(t) /\ t[k] = "}"
    THEN [ok |-> TRUE, v |-> JObj(<<>>), next |-> k + 1]
    ELSE ParseMembers(t, k, <<>>)

\* The JSON value that starts at j, j holding no white space.
ValueAt(t, j) ==
    IF j > Len(t) THEN Fail
    ELSE IF HasAt(t, j, Chars("null")) THEN [ok |-> TRUE, v |-> JNull, next |-> j + 4]
    ELSE IF HasAt(t, j, Chars("true")) THEN [ok |-> TRUE, v |-> JBool(TRUE), next |-> j + 4]
    ELSE IF HasAt(t, j, Chars("false")) THEN [ok |-> TRUE, v |-> JBool(FALSE), next |-> j + 5]
    ELSE IF t[j] = "\"" THEN StringValue(ScanString(t, j + 1, <<>>))
    ELSE IF t[j] = "[" THEN ArrayAt(t, SkipWs(t, j + 1))
    ELSE IF t[j] = "{" THEN ObjectAt(t, SkipWs(t, j + 1))
    ELSE ScanNumber(t, j)

\* The JSON value from i on, after optional white space.
ParseValue(t, i) == ValueAt(t, SkipWs(t, i))

\* The whole text is the value r and white space.
WholeText(t, r) ==
    IF r.ok /\ SkipWs(t, r.next) > Len(t)
    THEN Return(r.v)
    ELSE Throw("SyntaxError", Chars("Unexpected token in JSON"))

\* JSON.parse(t): the value of the whole text, or a SyntaxError.  The text
\* of V8's message is not modelled.
JSONParse(t) == WholeText(t, ParseValue(t, 1))

(***************************************************************************)
(* JSON.stringify and the string conversion of a template literal          *)
(***************************************************************************)

LowerHexDigits == Chars("0123456789abcdef")

\* \uXXXX, as JSON.stringify writes it.
UnicodeEscape(n) ==
    <<"\\", "u", LowerHexDigits[(n \div 4096) + 1], LowerHexDigits[((n \div 256) % 16) + 1],
      LowerHexDigits[((n \div 16) % 16) + 1], LowerHexDigits[(n % 16) + 1]>>

\* Character i of s, of number n, as it stands inside a JSON string: quote,
\* backslash and control characters escaped, a lone surrogate escaped, a
\* surrogate pair kept.
QuoteCode(s, i, n) ==
    IF n = 34 THEN <<"\\", "\"">>
    ELSE IF n = 92 THEN <<"\\", "\\">>
    ELSE IF n = 8 THEN <<"\\", "b">>
    ELSE IF n = 12 THEN <<"\\", "f">>
    ELSE IF n = 10 THEN <<"\\", "n">>
    ELSE IF n = 13 THEN <<"\\", "r">>
    ELSE IF n = 9 THEN <<"\\", "t">>
    ELSE IF n < 32 THEN UnicodeEscape(n)
    ELSE IF ~(IsHighSurrogate(n) \/ IsLowSurrogate(n)) THEN <<s[i]>>
    ELSE IF PairAt(s, i) \/ PairAt(s, i - 1) THEN <<s[i]>>
    ELSE UnicodeEscape(n)

QuoteChar(s, i) == QuoteCode(s, i, Ord(s[i]))

QuoteJSONString(s) ==
    <<"\"">> \o Flatten([i \in 1..Len(s) |-> QuoteChar(s, i)]) \o <<"\"">>

RECURSIVE JSONStringify(_)
RECURSIVE StringifyMembers(_, _, _)
RECURSIVE StringifyItems(_, _)

\* The members of an object from i on; a property whose value is undefined
\* is left out.
StringifyMembers(props, i, first) ==
    IF i > Len(props) THEN <<>>
    ELSE IF props[i].v.t = "undefined" THEN StringifyMembers(props, i + 1, first)
    ELSE (IF first THEN <<>> ELSE <<",">>)
         \o QuoteJSONString(props[i].k) \o <<":">> \o JSONStringify(props[i].v)
         \o StringifyMembers(props, i + 1, FALSE)

\* The elements of an array from i on; undefined is written null.
StringifyItems(items, i) ==
    IF i > Len(items) THEN <<>>
    ELSE (IF i = 1 THEN <<>> ELSE <<",">>)
         \o (IF items[i].t = "undefined" THEN Chars("null") ELSE JSONStringify(items[i]))
         \o StringifyItems(items, i + 1)

\* JSON.stringify(v), v not undefined
JSONStringify(v) ==
    CASE v.t = "null" -> Chars("null")
      [] v.t = "boolean" -> (IF v.b THEN Chars("true") ELSE Chars("false"))
      [] v.t = "number" -> IntToChars(v.n)
      [] v.t = "string" -> QuoteJSONString(v.s)
      [] v.t = "array" -> <<"[">> \o StringifyItems(v.items, 1) \o <<"]">>
      [] v.t = "object" -> <<"{">> \o StringifyMembers(v.props, 1, TRUE) \o <<"}">>

RECURSIVE StringOf(_)
RECURSIVE JoinItems(_, _)

\* Array.prototype.join(","): null and undefined elements are empty.
JoinItems(items, i) ==
    IF i > Len(items) THEN <<>>
    ELSE (IF i = 1 THEN <<>> ELSE <<",">>)
         \o (IF items[i].t \in {"null", "undefined"} THEN <<>> ELSE StringOf(items[i]))
         \o JoinItems(items, i + 1)

\* `${v}`
StringOf(v) ==
    CASE v.t = "undefined" -> Chars("undefined")
      [] v.t = "null" -> Chars("null")
      [] v.t = "boolean" -> (IF v.b THEN Chars("true") ELSE Chars("false"))
      [] v.t = "number" -> IntToChars(v.n)
      [] v.t = "string" -> v.s
      [] v.t = "array" -> JoinItems(v.items, 1)
      [] v.t = "object" -> Chars("[object Object]")

(***************************************************************************)
(* The codec.  The source's messages are Chinese text; each is written     *)
(* here in English.  A result object holds exactly the properties the      *)
(* returned object literal holds.                                          *)
(***************************************************************************)

ERR_EMPTY == Chars("payload content is empty")

ERR_MISSING_TYPE == Chars("payload missing type field")

ERR_CRON_FIELDS ==
    Chars("cron_reminder payload missing required fields (content, targetType, targetAddress)")

ERR_MEDIA_FIELDS == Chars("media payload missing required fields (mediaType, source, path)")

ERR_JSON == Chars("JSON parse failed: ")

ERR_CRON_EMPTY == Chars("deferred payload content is empty")

ERR_CRON_TYPE == Chars("expected type cron_reminder, got ")

ERR_CRON_MISSING == Chars("deferred payload missing required fields")

ERR_CRON_DECODE == Chars("deferred payload decode failed: ")

CRON_REMINDER == JStr(Chars("cron_reminder"))

MEDIA == JStr(Chars("media"))

\* payload.k of a value that is neither null nor undefined
Field(payload, k) == GetProp(payload, Chars(k)).value

\* MissingCronFields without the check of targetAddress.
MissingCronFieldsTwo(payload) ==
    \/ ~Truthy(Field(payload, "content"))
    \/ ~Truthy(Field(payload, "targetType"))

\* !payload.content || !payload.targetType || !payload.targetAddress
MissingCronFields(payload) ==
    \/ ~Truthy(Field(payload, "content"))
    \/ ~Truthy(Field(payload, "targetType"))
    \/ ~Truthy(Field(payload, "targetAddress"))

\* !payload.mediaType || !payload.source || !payload.path
MissingMediaFields(payload) ==
    \/ ~Truthy(Field(payload, "mediaType"))
    \/ ~Truthy(Field(payload, "source"))
    \/ ~Truthy(Field(payload, "path"))

\* parseByType holding every type other than cron_reminder to the media fields.
parseByTypeElse(payload, type) ==
    IF type = CRON_REMINDER /\ MissingCronFields(payload)
    THEN Return([isPayload |-> TRUE, error |-> ERR_CRON_FIELDS])
    ELSE IF type # CRON_REMINDER /\ MissingMediaFields(payload)
    THEN Return([isPayload |-> TRUE, error |-> ERR_MEDIA_FIELDS])
    ELSE Return([isPayload |-> TRUE, payload |-> payload])

\* Lines 122-142 of parseQQBotPayload: the checks by type, type being truthy.
parseByType(payload, type) ==
    IF type = CRON_REMINDER /\ MissingCronFields(payload)
    THEN Return([isPayload |-> TRUE, error |-> ERR_CRON_FIELDS])
    ELSE IF type = MEDIA /\ MissingMediaFields(payload)
    THEN Return([isPayload |-> TRUE, error |-> ERR_MEDIA_FIELDS])
    ELSE Return([isPayload |-> TRUE, payload |-> payload])

\* Lines 115-120: type is how reading payload.type ended.
parseType(payload, type) ==
    IF type.kind = "throw" THEN type
    ELSE IF ~Truthy(type.value)
    THEN Return([isPayload |-> TRUE, error |-> ERR_MISSING_TYPE])
    ELSE parseByType(payload, type.value)

\* parseParsed reading payload.kind in place of payload.type.
parseParsedKind(parsed) ==
    IF parsed.kind = "throw" THEN parsed
    ELSE parseType(parsed.value, GetProp(parsed.value, Chars("kind")))

\* Lines 112-142: parsed is how JSON.parse(jsonContent) ended.
parseParsed(parsed) ==
    IF parsed.kind = "throw" THEN parsed
    ELSE parseType(parsed.value, GetProp(parsed.value, Chars("type")))

\* The try block of parseQQBotPayload: what it returns, or what it throws.
parseTry(jsonContent) == parseParsed(JSONParse(jsonContent))

\* parseQQBotPayload without its catch clause.
parseNoCatch(c) == c

\* The catch clause of parseQQBotPayload.
parseCatch(c) ==
    IF c.kind = "throw"
    THEN Return([isPayload |-> TRUE, error |-> ERR_JSON \o c.error.message])
    ELSE c

\* parseContent giving no error for the empty content.
parseContentNoError(jsonContent) ==
    IF jsonContent = <<>>
    THEN Return([isPayload |-> TRUE])
    ELSE parseCatch(parseTry(jsonContent))

\* Lines 104-148: jsonContent is the trimmed text after the prefix.
parseContent(jsonContent) ==
    IF jsonContent = <<>>
    THEN Return([isPayload |-> TRUE, error |-> ERR_EMPTY])
    ELSE parseCatch(parseTry(jsonContent))

\* parseTrimmed handing back the trimmed text in place of the text given.
parseTrimmedText(rawText, trimmedText) ==
    IF ~startsWith(trimmedText, PAYLOAD_PREFIX)
    THEN Return([isPayload |-> FALSE, text |-> trimmedText])
    ELSE parseContent(trim(slice(trimmedText, Len(PAYLOAD_PREFIX))))

\* Lines 94-148: trimmedText is text.trim().
parseTrimmed(rawText, trimmedText) ==
    IF ~startsWith(trimmedText, PAYLOAD_PREFIX)
    THEN Return([isPayload |-> FALSE, text |-> rawText])
    ELSE parseContent(trim(slice(trimmedText, Len(PAYLOAD_PREFIX))))

parseQQBotPayload(rawText) == parseTrimmed(rawText, trim(rawText))

encodePayloadForCron(payload) ==
    CRON_PREFIX \o Base64Encode(UTF8Encode(JSONStringify(payload)))

\* decodeType without the check of the required fields.
decodeTypeOnly(payload, type) ==
    IF type.kind = "throw" THEN type
    ELSE IF type.value # CRON_REMINDER
    THEN Return([isCronPayload |-> TRUE, error |-> ERR_CRON_TYPE \o StringOf(type.value)])
    ELSE Return([isCronPayload |-> TRUE, payload |-> payload])

\* Lines 221-240 of decodeCronPayload: type is how reading payload.type ended.
decodeType(payload, type) ==
    IF type.kind = "throw" THEN type
    ELSE IF type.value # CRON_REMINDER
    THEN Return([isCronPayload |-> TRUE, error |-> ERR_CRON_TYPE \o StringOf(type.value)])
    ELSE IF MissingCronFields(payload)
    THEN Return([isCronPayload |-> TRUE, error |-> ERR_CRON_MISSING])
    ELSE Return([isCronPayload |-> TRUE, payload |-> payload])

\* Lines 219-240: parsed is how JSON.parse(jsonString) ended.
decodeParsed(parsed) ==
    IF parsed.kind = "throw" THEN parsed
    ELSE decodeType(parsed.value, GetProp(parsed.value, Chars("type")))

\* The try block of decodeCronPayload.
decodeTry(base64Content) == decodeParsed(JSONParse(UTF8Decode(Base64Decode(base64Content))))

\* decodeCronPayload without its catch clause.
decodeNoCatch(c) == c

\* The catch clause of decodeCronPayload.
decodeCatch(c) ==
    IF c.kind = "throw"
    THEN Return([isCronPayload |-> TRUE, error |-> ERR_CRON_DECODE \o c.error.message])
    ELSE c

\* Lines 209-246: base64Content is the trimmed message after the prefix.
decodeContent(base64Content) ==
    IF base64Content = <<>>
    THEN Return([isCronPayload |-> TRUE, error |-> ERR_CRON_EMPTY])
    ELSE decodeCatch(decodeTry(base64Content))

\* Lines 200-246: trimmedMessage is message.trim().
decodeTrimmed(trimmedMessage) ==
    IF ~startsWith(trimmedMessage, CRON_PREFIX)
    THEN Return([isCronPayload |-> FALSE])
    ELSE decodeContent(slice(trimmedMessage, Len(CRON_PREFIX)))

decodeCronPayload(message) == decodeTrimmed(trim(message))

\* payload.type === 'cron_reminder'
isCronReminderPayload(payload) == Field(payload, "type") = CRON_REMINDER

\* isMediaPayload looking at the fields of the variant as well.
isMediaPayloadChecked(payload) ==
    Field(payload, "type") = MEDIA /\ ~MissingMediaFields(payload)

\* payload.type === 'media'
isMediaPayload(payload) == Field(payload, "type") = MEDIA

(***************************************************************************)
(* The inputs the operations are applied to.                               *)
(***************************************************************************)

\* The most white space characters put around and inside an input text.
MaxPad == 1

\* The longest content of a reminder handed to encodePayloadForCron.
MaxContentLen == 2

\* The sequences over alphabet of length at most n.
RECURSIVE SeqsUpTo(_, _)
SeqsUpTo(alphabet, n) ==
    IF n = 0 THEN {<<>>}
    ELSE LET shorter == SeqsUpTo(alphabet, n - 1)
         IN shorter \cup {Append(q, c) : q \in shorter, c \in alphabet}

\* White space before the marker, between marker and body, and after the
\* body: at most MaxPad characters in all.
Pads ==
    {p \in SeqsUpTo({" ", "\n"}, MaxPad) \X SeqsUpTo({" ", "\n"}, MaxPad)
            \X SeqsUpTo({" ", "\n"}, MaxPad) :
        Len(p[1]) + Len(p[2]) + Len(p[3]) <= MaxPad}

\* An object of the given properties, in order; a property given as
\* undefined is absent.
Absent == JUndefined

IsDefined(p) == p.v.t # "undefined"

ObjectOf(props) == JObj(SelectSeq(props, IsDefined))

Prop(k, v) == [k |-> Chars(k), v |-> v]

\* What a required field may hold: nothing, the empty string, a string.
Cube(a, b, c) ==
    {<<x, y, z>> : x \in {Absent, JStr(<<>>), JStr(Chars(a))},
                   y \in {Absent, JStr(<<>>), JStr(Chars(b))},
                   z \in {Absent, JStr(<<>>), JStr(Chars(c))}}

\* Other values of a field: falsy ones, truthy ones that are no strings, and
\* a string that no variant declares.
OddValues ==
    {JNull, JNum(0), JBool(FALSE), JNum(7), JBool(TRUE), JArr(<<>>), JObj(<<>>),
     JStr(Chars("other"))}

OneOdd(a, b, c) ==
    {<<x, JStr(Chars(b)), JStr(Chars(c))>> : x \in OddValues}
    \cup {<<JStr(Chars(a)), y, JStr(Chars(c))>> : y \in OddValues}
    \cup {<<JStr(Chars(a)), JStr(Chars(b)), z>> : z \in OddValues}

CronFields(f) ==
    <<Prop("content", f[1]), Prop("targetType", f[2]), Prop("targetAddress", f[3])>>

MediaFields(f) == <<Prop("mediaType", f[1]), Prop("source", f[2]), Prop("path", f[3])>>

\* Values of the discriminator: the two variants, an unknown variant, falsy
\* values, truthy values that are no strings, and none.
DiscriminatorValues ==
    {CRON_REMINDER, MEDIA, JStr(Chars("poll")), JStr(<<>>), JNull, JNum(0), JBool(FALSE),
     JNum(7), JBool(TRUE), JObj(<<>>), Absent}

FullCron == <<JStr(Chars("hi")), JStr(Chars("c2c")), JStr(Chars("u1"))>>

FullMedia == <<JStr(Chars("image")), JStr(Chars("url")), JStr(Chars("https://x/y.png"))>>

\* The objects an AI output or a stored message may hold.
Objects ==
    {ObjectOf(<<Prop("type", CRON_REMINDER)>> \o CronFields(f)) :
        f \in Cube("hi", "group", "u1") \cup OneOdd("hi", "c2c", "u1")}
    \cup {ObjectOf(<<Prop("type", MEDIA)>> \o MediaFields(f)) :
        f \in Cube("audio", "file", "/tmp/a.mp3") \cup OneOdd("video", "url", "v")}
    \cup {ObjectOf(<<Prop(d, v)>> \o rest) :
        d \in {"type", "kind"}, v \in DiscriminatorValues,
        rest \in {<<>>, CronFields(FullCron), MediaFields(FullMedia),
                  <<Prop("content", JStr(Chars("x")))>>,
                  CronFields(FullCron) \o <<Prop("originalMessageId", JStr(Chars("m1")))>>}}

\* Bodies that are JSON but no object, and bodies that are no JSON.
OtherBodies ==
    {Chars(b) : b \in {"null", "0", "7", "-1", "true", "false", "\"media\"", "\"\"", "[]",
                       "[\"type\"]", "{", "{\"type\":}", "{\"type\":\"media\",}",
                       "{'type':'media'}", "{\"type\":\"media\"} x", "hello", "\"open",
                       "nul", "[1,]", "01"}}

Bodies == {JSONStringify(o) : o \in Objects} \cup OtherBodies

\* Texts that carry no marker at their start, or nothing after it.
PlainTexts ==
    {Chars(x) : x \in {"", " ", "\n\n", "hello", "  hello \n", "QQBOT_PAYLOAD",
                        "QQBOT_CRON", "qqbot_payload:{\"type\":\"media\"}",
                        "see QQBOT_PAYLOAD:{\"type\":\"media\"}", "see QQBOT_CRON:bnVsbA==",
                        "QQBOT_PAYLOAD:", " QQBOT_PAYLOAD: \n", "QQBOT_CRON:", "\nQQBOT_CRON: ",
                        "QQBOT_CRON:=", "QQBOT_CRON:!!!not-base64!!!", "QQBOT_CRON:e30",
                        "QQBOT_CRON:bnVsbA==", "QQBOT _PAYLOAD:{}"}}

\* The text an AI outputs for a body.
PayloadTexts == {p[1] \o PAYLOAD_PREFIX \o p[2] \o b \o p[3] : p \in Pads, b \in Bodies}

\* The base64 text of b with its padding cut off.
Unpadded(e) == BeforePadding(e)

\* The base64 text e in the URL-safe alphabet.
UrlSafe(e) == [i \in 1..Len(e) |-> IF e[i] = "+" THEN "-" ELSE IF e[i] = "/" THEN "_" ELSE e[i]]

\* The base64 text e with characters outside every alphabet put in.
Littered(e) == <<"!">> \o SubSeq(e, 1, 2) \o <<"*", " ">> \o SubSeq(e, 3, Len(e))

\* The bytes b with every byte from replaced by the byte to.
Corrupted(b, from, to) == [i \in 1..Len(b) |-> IF b[i] = from THEN to ELSE b[i]]

\* Stored messages: the base64 text of each body, well formed or not.
CronTexts ==
    {p[1] \o CRON_PREFIX \o p[2] \o Base64Encode(UTF8Encode(b)) \o p[3] : p \in Pads, b \in Bodies}
    \cup {CRON_PREFIX \o Unpadded(Base64Encode(UTF8Encode(b))) : b \in Bodies}
    \cup {CRON_PREFIX \o Littered(Base64Encode(UTF8Encode(b))) : b \in Bodies}

\* Stored messages whose bytes are no UTF-8, or whose base64 text needs the
\* characters the two alphabets differ in, or has lost its padding.
ByteTexts ==
    LET reminder(c) == ObjectOf(<<Prop("type", CRON_REMINDER)>>
                                \o CronFields(<<JStr(c), JStr(Chars("c2c")), JStr(Chars("u1"))>>))
        bytes == {UTF8Encode(JSONStringify(reminder(c))) :
                      c \in {<<"U+559D">>, <<"?", "?", "?">>, <<"~", "~", "~">>, <<">", ">", ">">>}}
        broken == {Corrupted(b, 229, 255) : b \in bytes} \cup {Corrupted(b, 123, 255) : b \in bytes}
                  \cup {Corrupted(b, 157, 34) : b \in bytes}
    IN {CRON_PREFIX \o Base64Encode(b) : b \in bytes \cup broken}
       \cup {CRON_PREFIX \o UrlSafe(Base64Encode(b)) : b \in bytes \cup broken}
       \cup {CRON_PREFIX \o Unpadded(Base64Encode(UTF8Encode(JSONStringify(reminder(c))))) :
                 c \in {<<"x">>, <<"x", "y">>, <<"x", "y", "z">>}}

Texts == PlainTexts \cup PayloadTexts \cup CronTexts \cup ByteTexts

\* What a reminder's content is made of: a letter, the characters JSON
\* escapes, a character of three UTF-8 bytes, a lone surrogate.
ContentAlphabet == {"x", "\"", "\\", "\n", "U+559D", "U+D800"}

\* The reminders a caller may hand to encodePayloadForCron: the type
\* CronReminderPayload admits the empty string, and a property set to
\* undefined.
Reminders ==
    {JObj(<<Prop("type", CRON_REMINDER), Prop("content", JStr(c)), Prop("targetType", JStr(Chars(t))),
            Prop("targetAddress", JStr(Chars(a)))>> \o m) :
        c \in SeqsUpTo(ContentAlphabet, MaxContentLen), t \in {"c2c", "group"},
        a \in {"", "user_openid_xxx"},
        m \in {<<>>, <<Prop("originalMessageId", JUndefined)>>,
               <<Prop("originalMessageId", JStr(Chars("msg-1")))>>}}

(***************************************************************************)
(* The codec holds no state of its own.  The state is that of one use of   *)
(* it: the argument of the call, the stored message, the result returned   *)
(* and where the use stands.                                               *)
(***************************************************************************)

VARIABLES
    pc,        \* "ready", then "parsed", "decoded", "encoded", "fired", "routed", "classified"
    text,      \* the text handed to parseQQBotPayload or decodeCronPayload
    reminder,  \* the payload handed to encodePayloadForCron, or undefined
    envelope,  \* the message encodePayloadForCron returned, as the scheduler stores it
    result,    \* how the last call of a parsing function ended
    subject,   \* a payload handed to the type guards as it is, or undefined
    route      \* what the type guards say of the payload in result or of subject

vars == <<pc, text, reminder, envelope, result, subject, route>>

NoResult == [kind |-> "none"]

NoRoute == [routed |-> FALSE]

Init ==
    /\ pc = "ready"
    /\ \/ text \in Texts /\ reminder = JUndefined /\ subject = JUndefined
       \/ text = <<>> /\ reminder \in Reminders /\ subject = JUndefined
       \/ text = <<>> /\ reminder = JUndefined /\ subject \in Objects
    /\ envelope = <<>>
    /\ result = NoResult
    /\ route = NoRoute

\* parseQQBotPayload(text)
Parse ==
    /\ pc = "ready"
    /\ reminder = JUndefined
    /\ subject = JUndefined
    /\ result' = parseQQBotPayload(text)
    /\ pc' = "parsed"
    /\ UNCHANGED <<text, reminder, envelope, subject, route>>

\* decodeCronPayload(text)
Decode ==
    /\ pc = "ready"
    /\ reminder = JUndefined
    /\ subject = JUndefined
    /\ result' = decodeCronPayload(text)
    /\ pc' = "decoded"
    /\ UNCHANGED <<text, reminder, envelope, subject, route>>

\* encodePayloadForCron(reminder): the scheduler stores what it returns.
Encode ==
    /\ pc = "ready"
    /\ reminder # JUndefined
    /\ envelope' = encodePayloadForCron(reminder)
    /\ pc' = "encoded"
    /\ UNCHANGED <<text, reminder, result, subject, route>>

\* The scheduler fires and hands the stored message to decodeCronPayload.
Fire ==
    /\ pc = "encoded"
    /\ result' = decodeCronPayload(envelope)
    /\ pc' = "fired"
    /\ UNCHANGED <<text, reminder, envelope, subject, route>>

\* The delivery path asks both type guards about a payload it was given.
Route ==
    /\ pc \in {"parsed", "decoded", "fired"}
    /\ result.kind = "return"
    /\ "payload" \in DOMAIN result.value
    /\ route' = [routed |-> TRUE,
                 isCronReminder |-> isCronReminderPayload(result.value.payload),
                 isMedia |-> isMediaPayload(result.value.payload)]
    /\ pc' = "routed"
    /\ UNCHANGED <<text, reminder, envelope, result, subject>>

\* A caller asks both type guards about a payload no parsing function checked.
Classify ==
    /\ pc = "ready"
    /\ subject # JUndefined
    /\ route' = [routed |-> TRUE,
                 isCronReminder |-> isCronReminderPayload(subject),
                 isMedia |-> isMediaPayload(subject)]
    /\ pc' = "classified"
    /\ UNCHANGED <<text, reminder, envelope, result, subject>>

Next == Parse \/ Decode \/ Encode \/ Fire \/ Route \/ Classify

Spec == Init /\ [][Next]_vars

(***************************************************************************)
(* What the claims speak of.                                               *)
(***************************************************************************)

\* t holds marker after white space only: the trimmed t starts with marker.
MarkedBy(t, marker) ==
    \E k \in 0..Len(t) : (\A i \in 1..k : IsWhiteSpace(t[i])) /\ HasAt(t, k + 1, marker)

\* Every one of the properties named keys is present in p and truthy.
AllTruthy(p, keys) == \A k \in keys : Truthy(GetProp(p, Chars(k)).value)

CronKeys == {"content", "targetType", "targetAddress"}

MediaKeys == {"mediaType", "source", "path"}

\* p without the properties set to undefined.
DefinedPart(p) == JObj(SelectSeq(p.props, IsDefined))

\* The outcomes of parse.
NotAPayload(t) == Return([isPayload |-> FALSE, text |-> t])

Invalid(reason) == Return([isPayload |-> TRUE, error |-> reason])

Valid(p) == Return([isPayload |-> TRUE, payload |-> p])

\* The outcomes of decodeDeferred.
NotDeferred == Return([isCronPayload |-> FALSE])

InvalidDeferred(reason) == Return([isCronPayload |-> TRUE, error |-> reason])

ValidDeferred(p) == Return([isCronPayload |-> TRUE, payload |-> p])

\* C1: a valid reminder that was encoded and then decoded comes back as
\* Valid, with every field it held and no other.
C1_RoundTrip ==
    (pc = "fired" /\ AllTruthy(reminder, CronKeys))
        => result = ValidDeferred(DefinedPart(reminder))

\* A reminder whose content needs JSON escapes and three-byte UTF-8, and that
\* carries an originalMessageId, has made the round trip.
C1_Witness ==
    /\ pc = "fired"
    /\ GetProp(reminder, Chars("content")).value = JStr(<<"\"", "U+559D">>)
    /\ GetProp(reminder, Chars("originalMessageId")).value = JStr(Chars("msg-1"))
    /\ result = ValidDeferred(reminder)

\* C2: a text whose trimmed form does not start with QQBOT_PAYLOAD: is
\* returned as NotAPayload with the text exactly as given, and with neither
\* payload nor error.
C2_PassThrough ==
    (pc = "parsed" /\ ~MarkedBy(text, PAYLOAD_PREFIX)) => result = NotAPayload(text)

\* A text with white space on both sides was passed through untrimmed.
C2_Witness ==
    /\ pc = "parsed"
    /\ text = Chars("  hello \n")
    /\ result.value.text = Chars("  hello \n")

\* C3: parse and decodeDeferred never throw: each ends by returning one of
\* its typed outcomes.
C3_NeverThrows ==
    /\ pc = "parsed" =>
        /\ result.kind = "return"
        /\ DOMAIN result.value \in {{"isPayload", "text"}, {"isPayload", "error"},
                                    {"isPayload", "payload"}}
    /\ pc \in {"decoded", "fired"} =>
        /\ result.kind = "return"
        /\ DOMAIN result.value \in {{"isCronPayload"}, {"isCronPayload", "error"},
                                    {"isCronPayload", "payload"}}

\* JSON null after the marker: reading its type throws inside the try block,
\* and parse still returned.
C3_Witness ==
    /\ pc = "parsed"
    /\ text = Chars("QQBOT_PAYLOAD:null")
    /\ result.kind = "return"
    /\ "error" \in DOMAIN result.value

\* What follows marker in the trimmed t.
Remainder(t, marker) == slice(trim(t), Len(marker))

\* How deserializing what follows QQBOT_PAYLOAD: in t ends.
Deserialized(t) == JSONParse(trim(Remainder(t, PAYLOAD_PREFIX)))

\* How deserializing what the envelope t encodes ends.
DecodedJSON(t) == JSONParse(UTF8Decode(Base64Decode(Remainder(t, CRON_PREFIX))))

\* The discriminator of the value v: undefined when v has none.
DiscriminatorOf(v) == IF v.t = "object" THEN GetProp(v, Chars("type")).value ELSE JUndefined

\* The names of the properties of the object o.
KeysOf(o) == {o.props[i].k : i \in DOMAIN o.props}

\* parse has acted on a text whose marked remainder deserialized.
ParsedJSON ==
    /\ pc = "parsed"
    /\ MarkedBy(text, PAYLOAD_PREFIX)
    /\ Deserialized(text).kind = "return"

\* decodeDeferred has acted on an envelope with something after the marker.
DecodedEnvelope ==
    /\ pc = "decoded"
    /\ MarkedBy(text, CRON_PREFIX)
    /\ Remainder(text, CRON_PREFIX) # <<>>

\* C4: when the deserialized object is a cron_reminder, parse returns Valid
\* if content, targetType and targetAddress are all truthy and the one
\* Invalid outcome for that variant otherwise; when it is a media payload,
\* the same with mediaType, source and path.
C4_KnownVariants ==
    ParsedJSON =>
        /\ DiscriminatorOf(Deserialized(text).value) = CRON_REMINDER =>
            result = IF AllTruthy(Deserialized(text).value, CronKeys)
                     THEN Valid(Deserialized(text).value)
                     ELSE Invalid(ERR_CRON_FIELDS)
        /\ DiscriminatorOf(Deserialized(text).value) = MEDIA =>
            result = IF AllTruthy(Deserialized(text).value, MediaKeys)
                     THEN Valid(Deserialized(text).value)
                     ELSE Invalid(ERR_MEDIA_FIELDS)

\* A cron_reminder whose targetAddress is the empty string, its other fields
\* in place, was found Invalid.
C4_Witness ==
    /\ ParsedJSON
    /\ DiscriminatorOf(Deserialized(text).value) = CRON_REMINDER
    /\ AllTruthy(Deserialized(text).value, {"content", "targetType"})
    /\ GetProp(Deserialized(text).value, Chars("targetAddress")).value = JStr(<<>>)
    /\ result = Invalid(ERR_CRON_FIELDS)

\* C5 as the claim states it: a media object whose discriminator is carried
\* in a field named kind, with mediaType, source and path in place, is
\* returned as Valid with those fields.
C5_KindField ==
    (/\ ParsedJSON
     /\ Deserialized(text).value.t = "object"
     /\ KeysOf(Deserialized(text).value)
            = {Chars("kind"), Chars("mediaType"), Chars("source"), Chars("path")}
     /\ GetProp(Deserialized(text).value, Chars("kind")).value = MEDIA
     /\ AllTruthy(Deserialized(text).value, MediaKeys))
        => result = Valid(Deserialized(text).value)

\* C5: a media object whose discriminator is carried in a field named type,
\* with mediaType, source and path in place, is returned as Valid with
\* those fields.
C5_TypeField ==
    (/\ ParsedJSON
     /\ Deserialized(text).value.t = "object"
     /\ KeysOf(Deserialized(text).value)
            = {Chars("type"), Chars("mediaType"), Chars("source"), Chars("path")}
     /\ GetProp(Deserialized(text).value, Chars("type")).value = MEDIA
     /\ AllTruthy(Deserialized(text).value, MediaKeys))
        => result = Valid(Deserialized(text).value)

\* The marker, a line break and the media object of the image at
\* https://x/y.png, its discriminator in type: Valid, with the three fields.
C5_Witness ==
    /\ pc = "parsed"
    /\ text = PAYLOAD_PREFIX \o <<"\n">> \o Chars("{\"type\":\"media\",\"mediaType\":\"image\",")
                \o Chars("\"source\":\"url\",\"path\":\"https://x/y.png\"}")
    /\ result = Valid(ObjectOf(<<Prop("type", MEDIA)>> \o MediaFields(FullMedia)))

\* C6 as the claim states it: an envelope whose decoded JSON has a
\* discriminator other than cron_reminder, or none at all, is Invalid with
\* the reason that names the type expected and the type found.
C6_TypeMismatch ==
    (/\ DecodedEnvelope
     /\ DecodedJSON(text).kind = "return"
     /\ DiscriminatorOf(DecodedJSON(text).value) # CRON_REMINDER)
        => result = InvalidDeferred(ERR_CRON_TYPE
                        \o StringOf(DiscriminatorOf(DecodedJSON(text).value)))

\* The text after the marker is base64 as RFC 4648 writes it.
IsStandardBase64(s) ==
    /\ Len(s) % 4 = 0
    /\ Len(s) - Len(BeforePadding(s)) <= 2
    /\ \A i \in 1..Len(s) :
        IF i <= Len(BeforePadding(s))
        THEN \E j \in 1..Len(Base64Alphabet) : Base64Alphabet[j] = s[i]
        ELSE s[i] = "="
    /\ Base64Encode(Base64Decode(s)) = s

\* The bytes b are well-formed UTF-8.
IsValidUTF8(b) == UTF8Encode(UTF8Decode(b)) = b

\* decodeDeferred returned Invalid with the reason of a failed decode.
DecodeFailed ==
    /\ result.kind = "return"
    /\ DOMAIN result.value = {"isCronPayload", "error"}
    /\ startsWith(result.value.error, ERR_CRON_DECODE)

\* C7 as the claim states it: an envelope whose remainder is not standard
\* base64, or decodes to bytes that are not UTF-8, or decodes to text that
\* is not JSON, is Invalid with the reason of a failed decode.
C7_DecodeStages ==
    (/\ DecodedEnvelope
     /\ \/ ~IsStandardBase64(Remainder(text, CRON_PREFIX))
        \/ ~IsValidUTF8(Base64Decode(Remainder(text, CRON_PREFIX)))
        \/ DecodedJSON(text).kind = "throw")
        => DecodeFailed

\* C7: an envelope whose remainder, decoded as Buffer decodes base64 and
\* UTF-8, is not JSON, is Invalid with the reason of a failed decode, never
\* Valid and never thrown.
C7_NotJSON ==
    (DecodedEnvelope /\ DecodedJSON(text).kind = "throw") => DecodeFailed

\* The envelope of the characters !!!not-base64!!! was found Invalid.
C7_Witness ==
    /\ pc = "decoded"
    /\ text = Chars("QQBOT_CRON:!!!not-base64!!!")
    /\ DecodeFailed

\* C8 as the claim states it: a text whose marked remainder deserializes
\* but whose value has no discriminator, or a falsy one, is Invalid with the
\* reason that the type field is missing.
C8_MissingType ==
    (ParsedJSON /\ ~Truthy(DiscriminatorOf(Deserialized(text).value)))
        => result = Invalid(ERR_MISSING_TYPE)

\* The payload of a Valid outcome.
ValidPayload == result.value.payload

\* An outcome that is Valid.
IsValid == result.kind = "return" /\ "payload" \in DOMAIN result.value

\* C9 as the claim states it: every Valid payload has a recognized kind and
\* the required fields of that kind, all truthy.
C9_OnlyRecognized ==
    (pc \in {"parsed", "decoded", "fired"} /\ IsValid) =>
        \/ DiscriminatorOf(ValidPayload) = CRON_REMINDER /\ AllTruthy(ValidPayload, CronKeys)
        \/ DiscriminatorOf(ValidPayload) = MEDIA /\ AllTruthy(ValidPayload, MediaKeys)

\* C9: a Valid payload of decodeDeferred is a cron_reminder with its
\* required fields truthy; a Valid payload of parse has a truthy type, and
\* the required fields of that type, all truthy, when the type is
\* cron_reminder or media.
C9_ValidPayload ==
    /\ (pc \in {"decoded", "fired"} /\ IsValid) =>
        /\ DiscriminatorOf(ValidPayload) = CRON_REMINDER
        /\ AllTruthy(ValidPayload, CronKeys)
    /\ (pc = "parsed" /\ IsValid) =>
        /\ Truthy(DiscriminatorOf(ValidPayload))
        /\ DiscriminatorOf(ValidPayload) = CRON_REMINDER => AllTruthy(ValidPayload, CronKeys)
        /\ DiscriminatorOf(ValidPayload) = MEDIA => AllTruthy(ValidPayload, MediaKeys)

\* parse returned as Valid an object of the type poll and nothing else, and
\* decodeDeferred was not asked.
C9_Witness ==
    /\ pc = "parsed"
    /\ IsValid
    /\ ValidPayload = ObjectOf(<<Prop("type", JStr(Chars("poll")))>>)

\* C10: when the deserialized object has a discriminator that is there and
\* is neither cron_reminder nor media, parse returns Valid with that object
\* as it is, and checks no field of it.
C10_ForwardCompatible ==
    (/\ ParsedJSON
     /\ Truthy(DiscriminatorOf(Deserialized(text).value))
     /\ DiscriminatorOf(Deserialized(text).value) \notin {CRON_REMINDER, MEDIA})
        => result = Valid(Deserialized(text).value)

\* An object of the type poll that holds content and no other field of a
\* known variant came back Valid and unchanged.
C10_Witness ==
    /\ ParsedJSON
    /\ Deserialized(text).value
        = ObjectOf(<<Prop("type", JStr(Chars("poll"))), Prop("content", JStr(Chars("x")))>>)
    /\ result = Valid(Deserialized(text).value)

\* The value of the property k of the Valid payload.
ValidField(k) == GetProp(ValidPayload, Chars(k)).value

\* C11 as the claim states it: a cron_reminder returned as Valid by parse or
\* decodeDeferred has targetType c2c or group and strings for content and
\* targetAddress; a media payload returned as Valid by parse has mediaType
\* image, audio or video and source url or file.
C11_FullyTyped ==
    (pc \in {"parsed", "decoded", "fired"} /\ IsValid) =>
        /\ DiscriminatorOf(ValidPayload) = CRON_REMINDER =>
            /\ ValidField("targetType") \in {JStr(Chars("c2c")), JStr(Chars("group"))}
            /\ ValidField("content").t = "string"
            /\ ValidField("targetAddress").t = "string"
        /\ (pc = "parsed" /\ DiscriminatorOf(ValidPayload) = MEDIA) =>
            /\ ValidField("mediaType")
                \in {JStr(Chars("image")), JStr(Chars("audio")), JStr(Chars("video"))}
            /\ ValidField("source") \in {JStr(Chars("url")), JStr(Chars("file"))}

\* The properties of ParseResult that are set in the result of parse.
SetIn(keys) == DOMAIN result.value \cap keys

\* C12: what parse returns is exactly one of NotAPayload, Invalid and Valid:
\* exactly one of text, error and payload is set; text is set if and only if
\* isPayload is false; and when isPayload is true exactly one of payload and
\* error is set.
C12_Discriminated ==
    pc = "parsed" =>
        /\ result.kind = "return"
        /\ DOMAIN result.value \subseteq {"isPayload", "text", "error", "payload"}
        /\ "isPayload" \in DOMAIN result.value
        /\ result.value.isPayload \in BOOLEAN
        /\ Cardinality(SetIn({"text", "error", "payload"})) = 1
        /\ "text" \in DOMAIN result.value <=> ~result.value.isPayload
        /\ result.value.isPayload => Cardinality(SetIn({"error", "payload"})) = 1

\* The marker with nothing but white space after it: isPayload is true, the
\* error is set, and neither payload nor text is.
C12_Witness ==
    /\ pc = "parsed"
    /\ text = Chars(" QQBOT_PAYLOAD: \n")
    /\ result.value.isPayload
    /\ SetIn({"text", "error", "payload"}) = {"error"}

\* The payload the type guards were asked about.
Classified == IF pc = "routed" THEN result.value.payload ELSE subject

\* C13: what the type guards say depends on the discriminator alone:
\* cron_reminder gives the cron-reminder test true and the media test false,
\* media gives the reverse, everything else gives both false; the two are
\* never both true, whether or not the fields of the variant are there.
C13_Classify ==
    pc \in {"routed", "classified"} =>
        /\ route.isCronReminder = (DiscriminatorOf(Classified) = CRON_REMINDER)
        /\ route.isMedia = (DiscriminatorOf(Classified) = MEDIA)
        /\ ~(route.isCronReminder /\ route.isMedia)

\* A media payload without any of its fields was found to be media.
C13_Witness ==
    /\ pc = "classified"
    /\ subject = ObjectOf(<<Prop("type", MEDIA)>>)
    /\ route.isMedia
    /\ ~route.isCronReminder

====
